---- MODULE Spec2Model ----
(***************************************************************************)
(* Word-level model of the boundary-tag allocator of src/src/mem_alloc.c.   *)
(*                                                                         *)
(* The arena is modelled as an array of machine words.  Addresses are byte  *)
(* addresses; every metadata access of the code is word aligned, so a word  *)
(* of memory is one array cell.  The bytes above the break are kept: a      *)
(* break that is retracted and extended again by less than a page hands     *)
(* back the old contents.  An access above the break is undefined           *)
(* behaviour: it either faults (SIGSEGV) or lands in that stale memory; an  *)
(* access outside the modelled region altogether is recorded as `wild'.     *)
(*                                                                         *)
(* Every C function is an operator from a machine state (a record) to the   *)
(* machine state after the call; the actions apply the public functions to  *)
(* the variables.                                                           *)
(***************************************************************************)
EXTENDS Integers, Sequences, FiniteSets, TLC

(* ------------------------------ bounds -------------------------------- *)

\* the data limit of the callers of Spec, in words above the initial break:
\* the provider refuses to move the break beyond it
MaxHeapWords == 17

\* largest payload request, in bytes, the callers make
MaxRequest == 17

\* number of calls the callers of Spec make
MaxCalls == 5

\* the data limit of the callers of SpecDeep, in words
DeepHeapWords == 28

\* number of allocations the callers of SpecDeep start with
DeepBlocks == 7

\* number of calls the callers of SpecDeep make
DeepCalls == 15

\* number of calls the callers of SpecLong make
LongCalls == 19

\* the callers of SpecLong allocate again only while they hold fewer
\* allocations than this
RefillBelow == 4

\* the width of size_t, in bits: sizes are computed modulo 2^SizeBits
SizeBits == 16

\* number of calls the callers of SpecWide make
WideCalls == 4

\* number of calls the callers of SpecStray make
StrayCalls == 4

\* number of calls the callers of SpecMixed make
MixedCalls == 15

\* the memory that is modelled: the words up to the largest data limit and
\* one word of the page beyond it
RegionWords == DeepHeapWords + 1

(* ------------------------- program constants -------------------------- *)

NULL == 0

PTR_SIZE == 8

WORD_SIZE == 8

MIN_SIZE == 4 * WORD_SIZE

MIN_PAYLOAD == 2 * WORD_SIZE

ENOMEM == 12

\* the largest size_t and the largest ptrdiff_t, of the width that is modelled
SIZE_MAX == 2 ^ SizeBits - 1

PTRDIFF_MAX == 2 ^ (SizeBits - 1) - 1

\* the initial program break: sbrk(0) before the first extension
HeapBase == 4096

HeapLimit == HeapBase + WORD_SIZE * RegionWords

VARIABLES
    mem,         \* the words of [HeapBase, HeapLimit), by word index
    brk,         \* the provider's program break
    rlimit,      \* the provider's limit of the break (RLIMIT_DATA)
    heap_start,  \* static void * heap_start
    heap_end,    \* static void * heap_end
    free_list,   \* static void * free_list
    init,        \* static char init of mem_alloc
    errno,       \* errno
    sig,         \* "none", or the signal that ended the process
    live,        \* history: payload pointers returned and not yet released
    last,        \* history: the last call, its arguments and its result
    run,         \* history: the allocations made since the last call that
                 \* was not a mem_alloc, in the order they were made
    pre,         \* history: measures of the arena before the last call
    calls        \* history: the number of calls made

vars == <<mem, brk, rlimit, heap_start, heap_end, free_list, init, errno, sig, live, last, run, pre, calls>>

(* --------------------------- memory access ---------------------------- *)

Idx(a) == (a - HeapBase) \div WORD_SIZE

InRegion(a) == a >= HeapBase /\ a < HeapLimit /\ a % WORD_SIZE = 0

\* *(size_t *) a, or the memcpy of one word out of a
Rd(s, a) == IF InRegion(a) THEN s.mem[Idx(a)] ELSE 0

\* the access at a is noted: above the break, or outside the region
Touch(s, a) ==
    IF ~InRegion(a) THEN [s EXCEPT !.wild = TRUE]
    ELSE IF a >= s.brk THEN [s EXCEPT !.oob = TRUE]
    ELSE s

\* memcpy(a, &v, WORD_SIZE) to an address one byte above a word boundary,
\* which is where a size with the allocation bit set puts a footer: the low
\* seven bytes of v go into the high bytes of the word at a - 1, the eighth
\* byte, which is 0 for every size of the model, into the low byte of the
\* word after it (little-endian words)
WrOdd(s, a, v) ==
    IF InRegion(a - 1) /\ InRegion(a + 7) /\ v >= 0 /\ v < 4194304
    THEN [Touch(Touch(s, a - 1), a + 7) EXCEPT
            !.mem[Idx(a - 1)] = (@ % 256) + v * 256,
            !.mem[Idx(a + 7)] = @ - (@ % 256)]
    ELSE [s EXCEPT !.wild = TRUE]

\* memcpy(a, &v, WORD_SIZE)
Wr(s, a, v) ==
    IF InRegion(a) THEN [Touch(s, a) EXCEPT !.mem[Idx(a)] = v]
    ELSE IF a % WORD_SIZE = 1 THEN WrOdd(s, a, v)
    ELSE Touch(s, a)

\* x & 1
Bit0(x) == x % 2

\* x & ~1
ClearBit0(x) == x - (x % 2)

(* ---------------------------- the provider ---------------------------- *)

\* sbrk(incr): the previous break, or -1 when the break cannot be moved
sbrk_ok(s, incr) == s.brk + incr <= s.rlimit /\ s.brk + incr >= 0

sbrk(s, incr) ==
    IF sbrk_ok(s, incr)
    THEN [s EXCEPT !.brk = s.brk + incr, !.ret = s.brk]
    ELSE [s EXCEPT !.errno = ENOMEM, !.ret = -1]

(* ---------------------------- Block Layout ----------------------------- *)

init_heap(s) == [s EXCEPT !.heap_start = s.brk, !.heap_end = s.brk]

\* a size_t result: the value modulo 2^SizeBits
Wrap(n) == n % (SIZE_MAX + 1)

adjust_size(size) ==
    LET sz == IF size < MIN_PAYLOAD THEN MIN_PAYLOAD ELSE size
    IN  Wrap(2 * WORD_SIZE + (Wrap(sz + 7) - (Wrap(sz + 7) % 8)))

(* ------------------------------ Free List ------------------------------ *)

free_list_add(s, ptr) ==
    IF s.free_list = NULL
    THEN LET s1 == [s EXCEPT !.free_list = ptr]
             s2 == Wr(s1, ptr + WORD_SIZE, ptr)
         IN  Wr(s2, ptr + 2 * WORD_SIZE, ptr)
    ELSE LET fl_head == s.free_list
             s1 == Wr(s, ptr + WORD_SIZE, fl_head)
             s2 == Wr(Touch(s1, fl_head + 2 * WORD_SIZE),
                      ptr + 2 * WORD_SIZE, Rd(s1, fl_head + 2 * WORD_SIZE))
             lst == Rd(s2, fl_head + 2 * WORD_SIZE)
             s3 == Wr(s2, lst + WORD_SIZE, ptr)
             s4 == Wr(s3, fl_head + 2 * WORD_SIZE, ptr)
         IN  [s4 EXCEPT !.free_list = ptr]

free_list_remove(s, ptr) ==
    LET s0 == Touch(Touch(s, ptr + WORD_SIZE), ptr + 2 * WORD_SIZE)
        next == Rd(s, ptr + WORD_SIZE)
        previous == Rd(s, ptr + 2 * WORD_SIZE)
    IN  IF next = ptr
        THEN [s0 EXCEPT !.free_list = NULL]
        ELSE LET s1 == IF s0.free_list = ptr
                       THEN [s0 EXCEPT !.free_list = next] ELSE s0
                 s2 == Wr(s1, previous + WORD_SIZE, next)
             IN  Wr(s2, next + 2 * WORD_SIZE, previous)

\* the do-while of find_free_block from `iterator' with `best_fit' so far;
\* fuel counts the iterations left before the walk is known not to return
RECURSIVE find_loop(_, _, _, _, _, _)
find_loop(s, size, start, iterator, best_fit, fuel) ==
    LET s1 == Touch(s, iterator)
        hdr == Rd(s, iterator)
        best == IF hdr >= size /\ (best_fit = NULL \/ hdr < Rd(s, best_fit))
                THEN iterator ELSE best_fit
        s2 == Touch(s1, iterator + WORD_SIZE)
        nxt == Rd(s, iterator + WORD_SIZE)
    IN  IF s2.wild THEN [s2 EXCEPT !.ret = best]
        ELSE IF nxt = start THEN [s2 EXCEPT !.ret = best]
        ELSE IF fuel = 0 THEN [s2 EXCEPT !.hang = TRUE, !.ret = best]
        ELSE find_loop(s2, size, start, nxt, best, fuel - 1)

find_free_block(s, size) ==
    IF s.free_list = NULL THEN [s EXCEPT !.ret = NULL]
    ELSE find_loop(s, size, s.free_list, s.free_list, NULL, DeepHeapWords)

(* ------------------------------ coalescing ----------------------------- *)

coalesce_right(s, ptr) ==
    LET next == ptr + Rd(s, ptr)
        s0 == Touch(Touch(s, ptr), next)
        next_size == Rd(s, next)
    IN  IF Bit0(next_size) = 0
        THEN LET total == next_size + Rd(s, ptr)
                 s1 == Wr([s0 EXCEPT !.coalesce = 1], ptr, total)
                 s2 == Wr(s1, ptr + ClearBit0(total) - WORD_SIZE, total)
                 s3 == free_list_remove(s2, next)
             IN  [free_list_add(s3, ptr) EXCEPT !.ret = ptr]
        ELSE [s0 EXCEPT !.ret = ptr]

coalesce_left(s, ptr) ==
    LET s0 == Touch(s, ptr - WORD_SIZE)
        prev_size == Rd(s, ptr - WORD_SIZE)
        previous == ptr - prev_size
    IN  IF Bit0(prev_size) = 0
        THEN LET total == prev_size + Rd(s, ptr)
                 s1 == Wr(Touch([s0 EXCEPT !.coalesce = 1], ptr), previous, total)
                 s2 == Wr(s1, previous + ClearBit0(total) - WORD_SIZE, total)
             IN  [s2 EXCEPT !.ret = previous]
        ELSE [s0 EXCEPT !.ret = ptr]

(* -------------------------- Allocation Engine -------------------------- *)

\* lines 351-359: mark the block allocated and return its payload
mark_allocated(s, free_block, size) ==
    LET sz == IF Bit0(size) = 1 THEN size ELSE size + 1
    IN  [Wr(Wr(s, free_block, sz), free_block + ClearBit0(sz) - WORD_SIZE, sz)
            EXCEPT !.ret = free_block + WORD_SIZE]

\* lines 335-349: the block is out of the free list; the remainder, when it
\* can hold a block, goes into the free list
split_block(s, free_block, size) ==
    LET remain_size == Rd(s, free_block) - size
        remain == free_block + size
    IN  IF remain_size >= MIN_SIZE
        THEN mark_allocated(
                 free_list_add(Wr(Wr(s, remain, remain_size),
                                  remain + remain_size - WORD_SIZE, remain_size),
                               remain),
                 free_block, size)
        ELSE mark_allocated(s, free_block, Rd(s, free_block))

\* lines 329-349: the free-list hit
reuse_block(s, free_block, size) ==
    split_block(Touch(free_list_remove(s, free_block), free_block), free_block, size)

\* an extension that moves heap_end before it looks at the provider's answer
extend_heap_eager(s, size) ==
    IF s.ret = -1
    THEN [s EXCEPT !.heap_end = s.heap_end + size, !.errno = ENOMEM, !.ret = NULL]
    ELSE mark_allocated([s EXCEPT !.heap_end = s.brk], s.ret, size)

\* lines 317-327: s is the provider's answer to sbrk(size)
extend_heap(s, size) ==
    IF s.ret = -1
    THEN [s EXCEPT !.errno = ENOMEM, !.ret = NULL]
    ELSE mark_allocated([s EXCEPT !.heap_end = s.brk], s.ret, size)

\* lines 313-328: the free-list miss, the break is extended
grow_heap(s, size) == extend_heap(sbrk(s, size), size)

\* lines 310-349: f is the answer of find_free_block
place_block(f, size) ==
    IF f.hang \/ f.wild THEN [f EXCEPT !.ret = NULL]
    ELSE IF f.ret = NULL THEN grow_heap(f, size)
    ELSE reuse_block(f, f.ret, size)

\* lines 286-292
first_call(s) == IF s.init = 0 THEN [init_heap(s) EXCEPT !.init = 1] ELSE s

\* a mem_alloc without the test of line 294
alloc_adjusted_nozero(s, request, size) ==
    IF size > PTRDIFF_MAX THEN [s EXCEPT !.ret = NULL]
    ELSE place_block(find_free_block(s, size), size)

\* lines 294-359
alloc_adjusted(s, request, size) ==
    IF request = 0 THEN [s EXCEPT !.ret = NULL]
    ELSE IF size > PTRDIFF_MAX THEN [s EXCEPT !.ret = NULL]
    ELSE place_block(find_free_block(s, size), size)

mem_alloc(s, request) == alloc_adjusted(first_call(s), request, adjust_size(request))

(* ---------------------------- Release Engine --------------------------- *)

\* In the steps of mem_free the record carries its locals: temp in ret, size
\* in size, coalesce in coalesce.

\* lines 388-396: the allocation bit is cleared in the header and the footer
clear_bit(s, temp) ==
    LET size == ClearBit0(Rd(s, temp))
    IN  [Wr(Wr(s, temp, size), temp + size - WORD_SIZE, size)
            EXCEPT !.coalesce = 0, !.ret = temp, !.size = size]

\* size = *(size_t *) temp, lines 400 and 409
reload_size(s) == [Touch(s, s.ret) EXCEPT !.size = Rd(s, s.ret)]

\* lines 398-401
merge_right(s) ==
    IF s.ret + s.size < s.heap_end THEN reload_size(coalesce_right(s, s.ret)) ELSE s

\* lines 404-406
unlink_merged(s) == IF s.coalesce = 1 THEN free_list_remove(s, s.ret) ELSE s

\* lines 403-410
merge_left(s) ==
    IF s.ret > s.heap_start
    THEN reload_size(coalesce_left(unlink_merged(s), s.ret))
    ELSE s

\* lines 412-416
add_uncoalesced(s) == IF s.coalesce = 0 THEN free_list_add(s, s.ret) ELSE s

\* line 425: heap_end = sbrk(0)
read_break(s) == [s EXCEPT !.heap_end = s.brk]

\* lines 418-426: the last block of the heap is given back to the provider
shrink_heap(s) ==
    IF s.ret + s.size = s.heap_end
    THEN read_break(sbrk(free_list_remove(s, s.ret), 0 - s.size))
    ELSE s

\* lines 388-426
release_block(s, temp) ==
    shrink_heap(add_uncoalesced(merge_left(merge_right(clear_bit(s, temp)))))

\* lines 374-386: s has read the header at temp
check_double_free(s, temp) ==
    IF Bit0(Rd(s, temp)) = 0
    THEN [s EXCEPT !.sig = "SIGABRT", !.msg = "double free"]
    ELSE release_block(s, temp)

\* a mem_free whose range check lets the bounds of the heap through
mem_free_open(s, ptr) ==
    IF ptr < s.heap_start \/ ptr > s.heap_end
    THEN [s EXCEPT !.sig = "SIGABRT", !.msg = "invalid pointer"]
    ELSE check_double_free(Touch(s, ptr - WORD_SIZE), ptr - WORD_SIZE)

mem_free(s, ptr) ==
    IF ptr <= s.heap_start \/ ptr >= s.heap_end
    THEN [s EXCEPT !.sig = "SIGABRT", !.msg = "invalid pointer"]
    ELSE check_double_free(Touch(s, ptr - WORD_SIZE), ptr - WORD_SIZE)

(* ----------------------------- Resize/Clear --------------------------- *)

\* 256^k for k < 3; every word of the model is below 256^3, so the low k
\* bytes of a word are the whole word from k = 3 on (little-endian words)
Pow256(k) == IF k = 0 THEN 1 ELSE IF k = 1 THEN 256 ELSE IF k = 2 THEN 65536 ELSE 16777216

\* the word whose low k bytes are those of new and whose other bytes are old's
MergeBytes(old, new, k) == (old - (old % Pow256(k))) + (new % Pow256(k))

\* the copy reads the word at src: the word is noted in reads
Load(s, src) == [Touch(s, src) EXCEPT !.reads = @ \cup {src}]

\* the copy ends where it leaves the region: the access faults
RECURSIVE memcpy(_, _, _, _)
memcpy(s, dst, src, n) ==
    IF n = 0 \/ s.wild THEN s
    ELSE IF n >= WORD_SIZE
    THEN memcpy(Wr(Load(s, src), dst, Rd(s, src)),
                dst + WORD_SIZE, src + WORD_SIZE, n - WORD_SIZE)
    ELSE Wr(Load(s, src), dst, MergeBytes(Rd(s, dst), Rd(s, src), n))

RECURSIVE memset0(_, _, _)
memset0(s, dst, n) ==
    IF n = 0 \/ s.wild THEN s
    ELSE IF n >= WORD_SIZE
    THEN memset0(Wr(s, dst, 0), dst + WORD_SIZE, n - WORD_SIZE)
    ELSE Wr(s, dst, MergeBytes(Rd(s, dst), 0, n))

\* the process is gone: a signal was raised, or the call cannot return
Dead(s) == s.sig # "none" \/ s.hang \/ s.wild

\* lines 444-447: c holds the copy; the old block is released and the new
\* one returned
resize_release(c, ptr, block) ==
    IF Dead(c) THEN c ELSE [mem_free(c, ptr) EXCEPT !.ret = block]

\* a resize that gives the old block up whether or not it got a new one
resize_copy_eager(a, ptr, size) ==
    IF Dead(a) \/ ptr = NULL THEN a
    ELSE IF a.ret = NULL THEN [mem_free(a, ptr) EXCEPT !.ret = NULL]
    ELSE resize_release(memcpy(a, a.ret, ptr, size), ptr, a.ret)

\* lines 438-447: a is the answer of mem_alloc(size)
resize_copy(a, ptr, size) ==
    IF Dead(a) \/ a.ret = NULL \/ ptr = NULL THEN a
    ELSE resize_release(memcpy(a, a.ret, ptr, size), ptr, a.ret)

\* a resize without the branch for size 0
mem_resize_plain(s, ptr, size) == resize_copy(mem_alloc(s, size), ptr, size)

mem_resize(s, ptr, size) ==
    IF size = 0 /\ ptr # NULL
    THEN [mem_free(s, ptr) EXCEPT !.ret = NULL]
    ELSE resize_copy(mem_alloc(s, size), ptr, size)

\* lines 455-460: a is the answer of mem_alloc(n * size)
clear_block(a, bytes) ==
    IF Dead(a) \/ a.ret = NULL THEN a
    ELSE [memset0(a, a.ret, bytes) EXCEPT !.ret = a.ret]

\* line 452: the product is a size_t
mem_alloc_clear(s, n, size) ==
    clear_block(mem_alloc(s, Wrap(n * size)), Wrap(n * size))

(* --------------------------- reading the heap -------------------------- *)

\* the walk of show_heap: block bases from `a' up to heap_end, by header size;
\* ok is FALSE when the walk does not land on heap_end
RECURSIVE heap_walk(_, _, _, _)
heap_walk(s, a, fuel, acc) ==
    IF a = s.heap_end THEN [ok |-> TRUE, blocks |-> acc]
    ELSE IF a > s.heap_end \/ ~InRegion(a) \/ fuel = 0 \/ ClearBit0(Rd(s, a)) = 0
    THEN [ok |-> FALSE, blocks |-> acc]
    ELSE heap_walk(s, a + ClearBit0(Rd(s, a)), fuel - 1, Append(acc, a))

show_heap(s) ==
    IF s.heap_start = NULL THEN [ok |-> TRUE, blocks |-> <<>>]
    ELSE heap_walk(s, s.heap_start, DeepHeapWords, <<>>)

\* the walk of show_free_list: the nodes from the head along the next links;
\* ok is FALSE when the walk leaves the arena or does not come back to the head
RECURSIVE free_walk(_, _, _, _)
free_walk(s, it, fuel, acc) ==
    IF ~InRegion(it) \/ it < s.heap_start \/ it >= s.heap_end \/ fuel = 0
    THEN [ok |-> FALSE, nodes |-> acc]
    ELSE IF Rd(s, it + WORD_SIZE) = s.free_list
    THEN [ok |-> TRUE, nodes |-> Append(acc, it)]
    ELSE free_walk(s, Rd(s, it + WORD_SIZE), fuel - 1, Append(acc, it))

\* the loop of show_free_list as the code runs it: the addresses it visits
\* from the head along the next links, wherever they lead
RECURSIVE link_walk(_, _, _, _)
link_walk(s, it, fuel, acc) ==
    IF ~InRegion(it) \/ it \in acc \/ fuel = 0 THEN acc
    ELSE link_walk(s, Rd(s, it + WORD_SIZE), fuel - 1, acc \cup {it})

Linked(s) ==
    IF s.free_list = NULL THEN {} ELSE link_walk(s, s.free_list, DeepHeapWords, {})

show_free_list(s) ==
    IF s.free_list = NULL THEN [ok |-> TRUE, nodes |-> <<>>]
    ELSE free_walk(s, s.free_list, DeepHeapWords, <<>>)

Range(q) == {q[i] : i \in 1..Len(q)}

\* show_block: the fields of the block at base a
BlockSize(s, a) == ClearBit0(Rd(s, a))

IsAllocated(s, a) == Bit0(Rd(s, a)) = 1

Footer(s, a) == Rd(s, a + BlockSize(s, a) - WORD_SIZE)

(* ------------------------------ the machine ---------------------------- *)

\* the machine state of the variables, at the entry of a call
M ==
    [mem |-> mem, brk |-> brk, rlimit |-> rlimit, heap_start |-> heap_start, heap_end |-> heap_end,
     free_list |-> free_list, init |-> init, errno |-> errno, sig |-> sig,
     msg |-> "", ret |-> NULL, coalesce |-> 0, size |-> 0,
     oob |-> FALSE, wild |-> FALSE, hang |-> FALSE, reads |-> {}]

InitWith(words) ==
    /\ mem = [i \in 0..(RegionWords - 1) |-> 0]
    /\ brk = HeapBase
    /\ rlimit = HeapBase + WORD_SIZE * words
    /\ heap_start = NULL
    /\ heap_end = NULL
    /\ free_list = NULL
    /\ init = 0
    /\ errno = 0
    /\ sig = "none"
    /\ live = {}
    /\ last = [op |-> "none", ptr |-> NULL, req |-> 0, ret |-> NULL, msg |-> "",
               waslive |-> FALSE, again |-> FALSE]
    /\ run = <<>>
    /\ pre = [age |-> 2]
    /\ calls = 0

Init == InitWith(MaxHeapWords)

InitDeep == InitWith(DeepHeapWords)

\* the end of the arena; before the first mem_alloc the arena is the empty
\* range at the break, which is where init_heap will put heap_end
ArenaEnd(s) == IF s.init = 0 THEN s.brk ELSE s.heap_end

\* what the round-trip and shrink properties compare
Measures(s) ==
    LET w == show_heap(s)
        free == {a \in Range(w.blocks) : ~IsAllocated(s, a)}
    IN  [heap_end |-> ArenaEnd(s),
         nblocks |-> Len(w.blocks),
         free_bytes |-> IF free = {} THEN 0
                        ELSE LET RECURSIVE Sum(_)
                                 Sum(S) == IF S = {} THEN 0
                                           ELSE LET x == CHOOSE y \in S : TRUE
                                                IN  BlockSize(s, x) + Sum(S \ {x})
                             IN  Sum(free),
         members |-> Range(show_free_list(s).nodes)]

LivePtrs == {l.ptr : l \in live}

\* the record of a call that is over: whether its pointer was a live
\* allocation, and whether it repeats the release that came just before it
Done(call, ret, msg) ==
    [op |-> call.op, ptr |-> call.ptr, req |-> call.req, ret |-> ret, msg |-> msg,
     waslive |-> call.ptr \in LivePtrs,
     again |-> /\ call.op = "mem_free" /\ last.op = "mem_free"
               /\ call.ptr = last.ptr /\ last.waslive]

\* the state after a call that ended in s; a call that touched memory above
\* the break may have faulted, one that went outside the region or that
\* cannot return ends the process
Commit(s, call, newlive) ==
    /\ sig = "none"
    /\ calls' = calls + 1
    /\ rlimit' = rlimit
    /\ \E fault \in BOOLEAN :
         IF s.hang \/ s.wild \/ (s.oob /\ fault)
         THEN /\ sig' = IF s.hang THEN "HANG" ELSE "SIGSEGV"
              /\ UNCHANGED <<mem, brk, heap_start, heap_end, free_list, init, errno, live, run>>
              /\ last' = Done(call, NULL, "")
         ELSE /\ mem' = s.mem
              /\ brk' = s.brk
              /\ heap_start' = s.heap_start
              /\ heap_end' = s.heap_end
              /\ free_list' = s.free_list
              /\ init' = s.init
              /\ errno' = s.errno
              /\ sig' = s.sig
              /\ live' = IF s.sig = "none" THEN newlive ELSE live
              /\ run' = IF call.op # "mem_alloc" THEN <<>>
                        ELSE IF s.ret # NULL
                        THEN Append(run, [ptr |-> s.ret, req |-> call.req])
                        ELSE run
              /\ last' = Done(call, s.ret, s.msg)
    /\ pre' = IF call.op = "mem_alloc"
              THEN [age |-> 0, m |-> Measures(M), ret |-> NULL,
                    grew |-> s.heap_end # ArenaEnd(M)]
              ELSE IF pre.age = 0 THEN [pre EXCEPT !.age = 1, !.ret = last.ret]
              ELSE [age |-> 2]

Call(op, ptr, req) == [op |-> op, ptr |-> ptr, req |-> req, ret |-> NULL, msg |-> ""]

\* the sizes the callers ask for: nothing, the payloads of the two smallest
\* block sizes, and more than the provider can ever give
Requests ==
    {n \in 0..MaxRequest : n = 0 \/ n % 16 = 1} \cup {WORD_SIZE * MaxHeapWords + 1}

\* the pointers the callers release: their live allocations, and the ones
\* mem_free is to refuse: NULL, the bounds of the heap, and the pointer that
\* was released by the call before; and an address of the region while there
\* is no heap yet
Pointers ==
    LivePtrs \cup {NULL, heap_start, heap_end}
        \cup (IF last.op \in {"mem_free", "mem_resize"} THEN {last.ptr} ELSE {})
        \cup (IF init = 0 THEN {HeapBase + WORD_SIZE} ELSE {})

\* the pointers the callers resize: their live allocations, or none
ResizePointers == LivePtrs \cup {NULL}

\* the allocations the caller holds after a call that ended in s
Gained(s, kept, req) ==
    IF s.ret # NULL THEN kept \cup {[ptr |-> s.ret, req |-> req]} ELSE kept

Allocated(s, call) == Commit(s, call, Gained(s, live, call.req))

CallMemAlloc(n) == Allocated(mem_alloc(M, n), Call("mem_alloc", NULL, n))

CallMemFree(p) ==
    Commit([mem_free(M, p) EXCEPT !.ret = NULL], Call("mem_free", p, 0),
              {l \in live : l.ptr # p})

Resized(s, call) ==
    Commit(s, call,
           Gained(s, IF (call.req = 0 /\ call.ptr # NULL) \/ s.ret # NULL
                     THEN {l \in live : l.ptr # call.ptr} ELSE live,
                  call.req))

CallMemResize(p, n) == Resized(mem_resize(M, p, n), Call("mem_resize", p, n))

ClearCounts == {0, 2}

ClearSizes == {8}

CallMemAllocClear(n, size) ==
    Allocated(mem_alloc_clear(M, n, size), Call("mem_alloc_clear", NULL, n * size))

\* the calls of the callers, MaxCalls of them at most
MemAlloc == calls < MaxCalls /\ \E n \in Requests : CallMemAlloc(n)

MemFree == calls < MaxCalls /\ \E p \in Pointers : CallMemFree(p)

MemResize ==
    calls < MaxCalls /\ \E p \in ResizePointers, n \in Requests : CallMemResize(p, n)

MemAllocClear ==
    calls < MaxCalls /\ \E n \in ClearCounts, size \in ClearSizes : CallMemAllocClear(n, size)

Next == MemAlloc \/ MemFree \/ MemResize \/ MemAllocClear

Spec == Init /\ [][Next]_vars

\* callers that allocate DeepBlocks smallest blocks and then release their
\* allocations and allocate again, in any order, never holding more than
\* DeepBlocks allocations
DeepAlloc == calls < DeepCalls /\ Cardinality(live) < DeepBlocks /\ CallMemAlloc(1)

DeepFree ==
    calls < DeepCalls /\ calls >= DeepBlocks /\ \E p \in LivePtrs : CallMemFree(p)

NextDeep == DeepAlloc \/ DeepFree

SpecDeep == InitDeep /\ [][NextDeep]_vars

\* callers that go on for longer: they allocate DeepBlocks smallest blocks,
\* then release their allocations, and allocate again only while they hold
\* fewer than RefillBelow allocations
LongAlloc ==
    /\ calls < LongCalls
    /\ calls < DeepBlocks \/ Cardinality(live) < RefillBelow
    /\ CallMemAlloc(1)

LongFree ==
    calls < LongCalls /\ calls >= DeepBlocks /\ \E p \in LivePtrs : CallMemFree(p)

NextLong == LongAlloc \/ LongFree

SpecLong == InitDeep /\ [][NextLong]_vars

\* callers that start as those of SpecDeep and then, while they hold fewer
\* than RefillBelow allocations, ask for blocks of two sizes
MixedRequests == {1, 2 * MIN_PAYLOAD + 1}

MixedAlloc ==
    /\ calls < MixedCalls
    /\ IF calls < DeepBlocks THEN CallMemAlloc(1)
       ELSE /\ Cardinality(live) < RefillBelow
            /\ \E n \in MixedRequests : CallMemAlloc(n)

MixedFree ==
    calls < MixedCalls /\ calls >= DeepBlocks /\ \E p \in LivePtrs : CallMemFree(p)

NextMixed == MixedAlloc \/ MixedFree

SpecMixed == InitDeep /\ [][NextMixed]_vars

\* callers that ask for sizes up to the largest size_t: the smallest request,
\* the largest ptrdiff_t, and the requests whose rounding leaves the range
\* of size_t
WideRequests == {1, PTRDIFF_MAX, SIZE_MAX - 22, SIZE_MAX - 7, SIZE_MAX}

\* the arrays they ask for, as <<count, element size>>: products that are
\* size_t values and products that are not
WideArrays ==
    {<<2, 8>>, <<(SIZE_MAX + 1) \div 8, 8>>, <<(SIZE_MAX + 1) \div 8 + 1, 8>>,
     <<SIZE_MAX, 2>>}

WideAlloc == calls < WideCalls /\ \E n \in WideRequests : CallMemAlloc(n)

WideAllocClear ==
    calls < WideCalls /\ \E a \in WideArrays : CallMemAllocClear(a[1], a[2])

WideFree == calls < WideCalls /\ \E p \in LivePtrs : CallMemFree(p)

NextWide == WideAlloc \/ WideAllocClear \/ WideFree

SpecWide == Init /\ [][NextWide]_vars

\* callers that also resize pointers they do not hold: NULL, the bounds of
\* the heap, a pointer they have released
StrayAlloc == calls < StrayCalls /\ \E n \in Requests : CallMemAlloc(n)

StrayFree == calls < StrayCalls /\ \E p \in LivePtrs : CallMemFree(p)

StrayResize ==
    calls < StrayCalls /\ \E p \in Pointers, n \in Requests : CallMemResize(p, n)

NextStray == StrayAlloc \/ StrayFree \/ StrayResize

SpecStray == Init /\ [][NextStray]_vars

(* ------------------------------ properties ----------------------------- *)

\* the blocks of the arena, as show_heap finds them
Blocks == show_heap(M).blocks

\* the walk over the blocks lands on heap_end
WalkOk == show_heap(M).ok

FreeBlocks == {a \in Range(Blocks) : ~IsAllocated(M, a)}

\* the blocks reachable from the head of the free list, in list order
Members == show_free_list(M).nodes

\* the free-list walk comes back to the head
ListOk == show_free_list(M).ok

\* the last call was a mem_free that returned
Released == last.op = "mem_free" /\ sig = "none"

\* C1: after every call the blocks reachable from the free_list head are
\* exactly the arena blocks whose allocation bit is clear, each reachable once
FreeListComplete ==
    /\ ListOk
    /\ Len(Members) = Cardinality(Range(Members))
    /\ Range(Members) = FreeBlocks

\* the usable payload bytes behind the payload pointer p
Usable(p) == BlockSize(M, p - WORD_SIZE) - 2 * WORD_SIZE

\* C2: the payloads returned by successive mem_alloc calls, with no other call
\* in between, are pairwise disjoint, lie inside the arena and are each at
\* least as long as requested
AllocRunDisjoint ==
    \A i \in 1..Len(run) :
        /\ Usable(run[i].ptr) >= run[i].req
        /\ run[i].ptr >= heap_start
        /\ run[i].ptr + Usable(run[i].ptr) <= heap_end
        /\ \A j \in 1..(i - 1) :
              \/ run[j].ptr + Usable(run[j].ptr) <= run[i].ptr
              \/ run[i].ptr + Usable(run[i].ptr) <= run[j].ptr

\* C3: after every call the header of every block of the arena equals the
\* footer at base + size - WORD_SIZE
BoundaryTags == \A a \in Range(Blocks) : Rd(M, a) = Footer(M, a)

\* C4: once the heap is initialised heap_start stays the initial break,
\* heap_start <= heap_end, heap_end is the provider's break, and the walk from
\* heap_start by header sizes lands on heap_end over blocks whose sizes are
\* multiples of 8 and at least MIN_SIZE
ArenaPartition ==
    init = 1 =>
        /\ heap_start = HeapBase
        /\ heap_start <= heap_end
        /\ heap_end = brk
        /\ WalkOk
        /\ \A a \in Range(Blocks) :
              BlockSize(M, a) % 8 = 0 /\ BlockSize(M, a) >= MIN_SIZE

\* C5: after a mem_free that returned, no two address-adjacent blocks of the
\* arena both have the allocation bit clear
NoAdjacentFree ==
    Released =>
        \A i \in 1..(Len(Blocks) - 1) :
            IsAllocated(M, Blocks[i]) \/ IsAllocated(M, Blocks[i + 1])

\* C6: mem_free of a live allocation does not raise SIGABRT; the same call
\* made again right after it does, and changes no word of memory, nor the
\* free_list head, nor heap_end
DoubleFreeFatal ==
    [][/\ (last'.op = "mem_free" /\ last'.waslive) => sig' # "SIGABRT"
       /\ last'.again =>
             /\ sig' = "SIGABRT"
             /\ mem' = mem /\ free_list' = free_list /\ heap_end' = heap_end
             /\ heap_start' = heap_start /\ brk' = brk]_vars

FreeNullNoOp == (last.op = "mem_free" /\ last.ptr = NULL) => sig = "none"

\* the header of the block that mem_free(p) releases, and the block that
\* coalescing makes of it: from the base of a free left neighbour to the end
\* of a free right neighbour
HdrOf(p) == p - WORD_SIZE

EndOf(p) == HdrOf(p) + BlockSize(M, HdrOf(p))

LeftFree(p) == HdrOf(p) > heap_start /\ Bit0(Rd(M, HdrOf(p) - WORD_SIZE)) = 0

RightFree(p) == EndOf(p) < heap_end /\ Bit0(Rd(M, EndOf(p))) = 0

MergedBase(p) ==
    IF LeftFree(p) THEN HdrOf(p) - Rd(M, HdrOf(p) - WORD_SIZE) ELSE HdrOf(p)

MergedEnd(p) ==
    IF RightFree(p) THEN EndOf(p) + Rd(M, EndOf(p)) ELSE EndOf(p)

\* C9: a release that follows the mem_alloc that grew the arena for its
\* pointer puts heap_end back where it was; and every release whose block,
\* after coalescing, ends at heap_end takes the block out of the free list,
\* retracts the break by the size of that block and leaves heap_end at the
\* new break
ShrinkOnTrailingFree ==
    [][(last'.op = "mem_free" /\ sig' = "none") =>
          /\ (pre'.age = 1 /\ pre'.grew /\ pre'.ret = last'.ptr) =>
                heap_end' = pre'.m.heap_end
          /\ MergedEnd(last'.ptr) = heap_end =>
                /\ brk' = brk - (MergedEnd(last'.ptr) - MergedBase(last'.ptr))
                /\ heap_end' = brk'
                /\ heap_end' = MergedBase(last'.ptr)
                /\ MergedBase(last'.ptr) \notin Linked(M')]_vars

\* a block at the end of the heap was released behind a free left neighbour
\* and the heap ends where that neighbour began
ShrinkOnTrailingFreeWitness ==
    /\ Released /\ last.waslive
    /\ last.ptr - WORD_SIZE > heap_end
    /\ heap_end > heap_start
    /\ heap_end = brk

\* C10: mem_alloc followed at once by mem_free of its pointer leaves heap_end,
\* the number of blocks, the bytes in free blocks and the members of the
\* free list as they were before the mem_alloc
RoundTrip ==
    (Released /\ pre.age = 1 /\ pre.ret = last.ptr /\ pre.ret # NULL) =>
        Measures(M) = pre.m

\* the words of memory, the bounds of the heap, the head of the free list
\* and the break are after the step what they were before it
EngineUnchanged ==
    /\ mem' = mem /\ heap_start' = heap_start /\ heap_end' = heap_end
    /\ free_list' = free_list /\ brk' = brk

\* C11: mem_alloc(0) returns NULL and leaves heap_start, heap_end, the
\* free_list head and every word of the heap as they were, also when it is
\* the first call
AllocZeroNoChange ==
    [][(last'.op = "mem_alloc" /\ last'.req = 0) =>
          last'.ret = NULL /\ EngineUnchanged]_vars

\* C11, amended: mem_alloc(0) returns NULL and leaves the free_list head, the
\* break and every word of the heap as they were; heap_start and heap_end
\* stay as they were too, except that the first call of mem_alloc sets both
\* to the break
AllocZeroKeepsBlocks ==
    [][(last'.op = "mem_alloc" /\ last'.req = 0) =>
          /\ last'.ret = NULL
          /\ mem' = mem /\ free_list' = free_list /\ brk' = brk
          /\ init = 1 => (heap_start' = heap_start /\ heap_end' = heap_end)
          /\ init = 0 => (heap_start' = brk /\ heap_end' = brk)]_vars

\* mem_alloc(0) was called on a heap that holds a free block
AllocZeroWitness ==
    /\ last.op = "mem_alloc" /\ last.req = 0 /\ last.ret = NULL
    /\ heap_start < heap_end /\ free_list # NULL

\* the last call was a mem_alloc of a positive size that returned NULL to its
\* caller: no free block fitted and the provider refused to move the break
Refused(l, e, sg) ==
    l.op = "mem_alloc" /\ l.req > 0 /\ l.ret = NULL /\ e = ENOMEM /\ sg = "none"

\* C12: when no free block fits and sbrk refuses, mem_alloc returns NULL and
\* heap_end, the free_list head and every word of the heap are unchanged
RefusedNoChange ==
    [][Refused(last', errno', sig') =>
          mem' = mem /\ free_list' = free_list /\ heap_end' = heap_end]_vars

\* C12, amended: the same, except that the first call of mem_alloc sets
\* heap_start and heap_end to the break
RefusedKeepsBlocks ==
    [][Refused(last', errno', sig') =>
          /\ mem' = mem /\ free_list' = free_list /\ brk' = brk
          /\ init = 1 => (heap_start' = heap_start /\ heap_end' = heap_end)
          /\ init = 0 => (heap_start' = brk /\ heap_end' = brk)]_vars

\* the provider refused while the free list held a block too small for the
\* request
RefusedWitness ==
    /\ Refused(last, errno, sig)
    /\ last.req <= MaxRequest
    /\ free_list # NULL /\ heap_start < heap_end

\* C13: for a request n of 1..SIZE_MAX, adjust_size(n) is a multiple of 8, at
\* least MIN_SIZE and at least n + 2 * WORD_SIZE, or mem_alloc(n) returns
\* NULL; and a block mem_alloc(n) returns has a usable payload of at least n
AdjustedSizeCovers ==
    (last.op = "mem_alloc" /\ last.req >= 1 /\ sig = "none") =>
        /\ \/ last.ret = NULL
           \/ /\ adjust_size(last.req) % 8 = 0
              /\ adjust_size(last.req) >= MIN_SIZE
              /\ adjust_size(last.req) >= last.req + 2 * WORD_SIZE
        /\ last.ret # NULL => Usable(last.ret) >= last.req

\* the free blocks of the heap that are large enough for a block of size
Qualifying(size) == {b \in FreeBlocks : BlockSize(M, b) >= size}

\* b is a smallest block of those that are large enough
BestFit(size, b) ==
    /\ b \in Qualifying(size)
    /\ \A c \in Qualifying(size) : BlockSize(M, b) <= BlockSize(M, c)

\* b is the first block of its size on the way from the head along the next
\* links
FirstOfSize(b) ==
    \E i \in 1..Len(Members) :
        /\ Members[i] = b
        /\ \A j \in 1..(i - 1) : BlockSize(M, Members[j]) # BlockSize(M, b)

\* a mem_alloc of a positive size has returned to its caller
AllocReturned(l, sg) == l.op = "mem_alloc" /\ l.req >= 1 /\ sg = "none"

\* C14: when a free block is large enough for adjust_size(n), mem_alloc(n)
\* returns the first block of the smallest such size in list order and leaves
\* the break where it is; the break moves only when no free block is large
\* enough
BestFitReuse ==
    [][(AllocReturned(last', sig') /\ Qualifying(adjust_size(last'.req)) # {}) =>
          /\ last'.ret # NULL
          /\ BestFit(adjust_size(last'.req), last'.ret - WORD_SIZE)
          /\ FirstOfSize(last'.ret - WORD_SIZE)
          /\ brk' = brk]_vars

\* the callers of SpecDeep have made their DeepBlocks allocations and since
\* then only released pointers they held
OnlyReleases ==
    /\ sig = "none"
    /\ calls >= DeepBlocks
    /\ calls - DeepBlocks = DeepBlocks - Cardinality(live)

\* the k-th block of those allocations, counted from 0 at heap_start
NthBlock(k) == HeapBase + k * adjust_size(1)

Held(k) == (NthBlock(k) + WORD_SIZE) \in LivePtrs

\* the blocks i..j have all been released, the blocks on both sides are still
\* held, and the one on the right keeps the run away from the end of the heap
ReleasedRun(i, j) ==
    /\ i <= j
    /\ \A k \in i..j : ~Held(k)
    /\ i = 0 \/ Held(i - 1)
    /\ Held(j + 1)

\* one free block covers the blocks i..j, with the summed size in its header
\* and footer, and it is in the free list once
OneFreeBlock(i, j) ==
    /\ NthBlock(i) \in FreeBlocks
    /\ Rd(M, NthBlock(i)) = (j - i + 1) * adjust_size(1)
    /\ Rd(M, NthBlock(j + 1) - WORD_SIZE) = (j - i + 1) * adjust_size(1)
    /\ Cardinality({n \in 1..Len(Members) : Members[n] = NthBlock(i)}) = 1

\* C15: when address-contiguous allocated blocks below the top-most block
\* have all been released, in whatever order, one free block covers their
\* ranges, its header and footer hold the summed size and it is in the free
\* list exactly once
CoalesceAnyOrder ==
    OnlyReleases =>
        \A i, j \in 0..(DeepBlocks - 2) : ReleasedRun(i, j) => OneFreeBlock(i, j)

\* mem_resize of a held pointer to a positive size has returned a block
ResizeReturned(l, sg) ==
    /\ l.op = "mem_resize" /\ l.waslive /\ l.req > 0
    /\ l.ret # NULL /\ sg = "none"

Min(a, b) == IF a <= b THEN a ELSE b

\* the first n bytes of the payload at q in s are those of the payload at p
\* in the state M
SameBytes(s, q, p, n) ==
    /\ \A k \in 0..((n \div WORD_SIZE) - 1) :
          Rd(s, q + k * WORD_SIZE) = Rd(M, p + k * WORD_SIZE)
    /\ n % WORD_SIZE # 0 =>
          Rd(s, q + (n - (n % WORD_SIZE))) % Pow256(n % WORD_SIZE)
            = Rd(M, p + (n - (n % WORD_SIZE))) % Pow256(n % WORD_SIZE)

\* C16: a mem_resize(p, n) of a held pointer p with n > 0 that returns a block
\* has copied the first min(usable payload of p, n) bytes of p's payload into
\* it, and its copy read no word outside the payload of p
ResizeCopiesPayload ==
    [][ResizeReturned(last', sig') =>
          /\ SameBytes(M', last'.ret, last'.ptr, Min(Usable(last'.ptr), last'.req))
          /\ \A a \in mem_resize(M, last'.ptr, last'.req).reads :
                a >= last'.ptr /\ a < last'.ptr + Usable(last'.ptr)]_vars

\* mem_resize of a held pointer to a positive size has returned NULL
ResizeFailed(l, sg) ==
    /\ l.op = "mem_resize" /\ l.waslive /\ l.req > 0
    /\ l.ret = NULL /\ sg = "none"

\* C17: when mem_resize(p, n) of a held pointer p with n > 0 returns NULL, the
\* block of p is still allocated and still held, and the heap words, the
\* bounds of the heap, the break and the free list are as before the call
ResizeFailureKeepsBlock ==
    [][ResizeFailed(last', sig') =>
          /\ IsAllocated(M', HdrOf(last'.ptr))
          /\ live' = live
          /\ EngineUnchanged]_vars

\* a resize failed while the caller held its block and the heap had blocks
ResizeFailureWitness ==
    /\ ResizeFailed(last, sig)
    /\ errno = ENOMEM
    /\ last.ptr \in LivePtrs
    /\ heap_start < heap_end

\* the call was a mem_resize to a positive size of a pointer that is not
\* NULL and is outside (heap_start, heap_end) or is the payload of a free
\* block
ResizeOfStray(l) ==
    /\ l.op = "mem_resize" /\ l.req > 0 /\ l.ptr # NULL
    /\ \/ l.ptr <= heap_start
       \/ l.ptr >= heap_end
       \/ ~IsAllocated(M, HdrOf(l.ptr))

\* C18: mem_resize of such a pointer raises the fatal condition and has
\* written no heap word, moved neither heap_end nor the break and left the
\* free list alone
ResizeStrayFatal ==
    [][ResizeOfStray(last') => sig' = "SIGABRT" /\ EngineUnchanged]_vars

\* a mem_resize of a pointer outside the heap has ended in the fatal
\* condition with one block more in the heap than the caller holds
ResizeStrayWitness ==
    /\ last.op = "mem_resize" /\ last.req > 0 /\ last.ptr = heap_start
    /\ sig = "SIGABRT"
    /\ Len(Blocks) > Cardinality(live)

\* the step ends as a call that ended in f ends: in a fault or a hang that f
\* allows, or in the state of f
EndsAs(f) ==
    \/ /\ f.hang \/ f.wild \/ f.oob
       /\ sig' = (IF f.hang THEN "HANG" ELSE "SIGSEGV")
       /\ UNCHANGED <<mem, brk, heap_start, heap_end, free_list, errno>>
    \/ /\ ~f.hang /\ ~f.wild
       /\ mem' = f.mem /\ brk' = f.brk
       /\ heap_start' = f.heap_start /\ heap_end' = f.heap_end
       /\ free_list' = f.free_list
       /\ errno' = f.errno /\ sig' = f.sig

\* C19: mem_resize(p, 0) of a held pointer p returns NULL and leaves the
\* allocator in the state mem_free(p) produces from the state before the call
ResizeZeroIsFree ==
    [][(last'.op = "mem_resize" /\ last'.waslive /\ last'.req = 0) =>
          /\ last'.ret = NULL
          /\ EndsAs(mem_free(M, last'.ptr))
          /\ sig' = "none" => last'.ptr \notin {l.ptr : l \in live'}]_vars

\* a mem_resize(p, 0) has put the block of p into the free list
ResizeZeroWitness ==
    /\ last.op = "mem_resize" /\ last.waslive /\ last.req = 0
    /\ sig = "none"
    /\ HdrOf(last.ptr) \in Range(Members)
    /\ ~IsAllocated(M, HdrOf(last.ptr))

\* C20: mem_alloc_clear(count, size) returns NULL and changes nothing when
\* count * size is larger than SIZE_MAX, and a block it returns has a usable
\* payload of at least count * size
ClearProductCovers ==
    [][last'.op = "mem_alloc_clear" =>
          /\ last'.req > SIZE_MAX =>
                sig' = "none" /\ last'.ret = NULL /\ EngineUnchanged
          /\ last'.ret # NULL =>
                BlockSize(M', HdrOf(last'.ret)) - 2 * WORD_SIZE >= last'.req]_vars

\* the call has returned NULL to report an error: a mem_alloc, a
\* mem_alloc_clear, or a mem_resize that is not the release of its pointer
ErrorReturned(l, sg) ==
    /\ sg = "none" /\ l.ret = NULL
    /\ \/ l.op \in {"mem_alloc", "mem_alloc_clear"}
       \/ l.op = "mem_resize" /\ (l.req > 0 \/ l.ptr = NULL)

\* C21: when mem_alloc, mem_resize or mem_alloc_clear returns NULL to report
\* an error, errno is ENOMEM
ErrnoOnError ==
    [][ErrorReturned(last', sig') => errno' = ENOMEM]_vars

\* how many times block b is met on the way round the free list of s
TimesListed(s, b) ==
    Cardinality({n \in 1..Len(show_free_list(s).nodes) : show_free_list(s).nodes[n] = b})

\* C22: when mem_free has merged the released block with a free neighbour on
\* either side and the merged block does not end at heap_end, the merged
\* block is in the free list exactly once when mem_free returns
MergedBlockListed ==
    [][(/\ last'.op = "mem_free" /\ sig' = "none"
        /\ LeftFree(last'.ptr) \/ RightFree(last'.ptr)
        /\ MergedEnd(last'.ptr) # heap_end) =>
          /\ show_free_list(M').ok
          /\ TimesListed(M', MergedBase(last'.ptr)) = 1]_vars

\* the bytes [p, p + n) and [q, q + m) that two callers were given overlap
Overlap(p, n, q, m) == p < q + m /\ q < p + n

\* the allocations the caller held before the call and still holds after it
Kept(l) == {k \in live : ~(l.op \in {"mem_free", "mem_resize"} /\ k.ptr = l.ptr)}

\* C23: while no fatal condition was raised, the payloads of the allocations
\* that are held are pairwise disjoint, so a call never returns bytes of an
\* allocation that is still held, and no held allocation's block is in the
\* free list
LiveDisjoint ==
    [][sig' = "none" =>
          /\ (last'.op # "mem_free" /\ last'.ret # NULL) =>
                \A k \in Kept(last') :
                    ~Overlap(last'.ret, last'.req, k.ptr, k.req)
          /\ \A k \in live' : HdrOf(k.ptr) \notin Linked(M')]_vars

\* the block find_free_block gives a mem_alloc(n) in the state before the call
Hit(n) == find_free_block(M, adjust_size(n)).ret

\* the step has allocated the low S bytes of the block b of size B, or all of
\* b when the rest cannot hold a block
SplitOrWhole(b, B, S) ==
    /\ last'.ret = b + WORD_SIZE
    /\ IF B - S >= MIN_SIZE
       THEN /\ Rd(M', b) = S + 1
            /\ Rd(M', b + S - WORD_SIZE) = S + 1
            /\ Rd(M', b + S) = B - S
            /\ Rd(M', b + B - WORD_SIZE) = B - S
            /\ (b + S) \in Linked(M')
            /\ Linked(M') \subseteq Linked(M) \cup {b + S}
       ELSE /\ Rd(M', b) = B + 1
            /\ Rd(M', b + B - WORD_SIZE) = B + 1
            /\ Linked(M') \subseteq Linked(M)
    /\ BlockSize(M', b) - S < MIN_SIZE

\* C24: on a free-list hit with a block of size B and an adjusted size S,
\* mem_alloc allocates the low S bytes and puts the high B - S bytes into the
\* free list as one free block when B - S >= MIN_SIZE, and allocates the
\* whole block and inserts nothing otherwise; the allocated block is less
\* than MIN_SIZE larger than S
SplitOnHit ==
    [][(AllocReturned(last', sig') /\ init = 1 /\ Hit(last'.req) # NULL) =>
          SplitOrWhole(Hit(last'.req), BlockSize(M, Hit(last'.req)),
                       adjust_size(last'.req))]_vars

\* a mem_alloc has split a free block: the block after the one it returned is
\* free, in the free list, and the heap did not grow
SplitWitness ==
    /\ AllocReturned(last, sig) /\ last.ret # NULL
    /\ pre.age = 0 /\ ~pre.grew
    /\ HdrOf(last.ret) + BlockSize(M, HdrOf(last.ret)) < heap_end
    /\ ~IsAllocated(M, HdrOf(last.ret) + BlockSize(M, HdrOf(last.ret)))
    /\ Len(Blocks) = pre.m.nblocks + 1

\* the next and prev links of the block at x
NextOf(x) == Rd(M, x + WORD_SIZE)

PrevOf(x) == Rd(M, x + 2 * WORD_SIZE)

\* x is the base of a block of the heap
BlockBase(x) == x >= heap_start /\ x < heap_end /\ x \in Range(Blocks)

\* C25: after every operation the free list is a well-formed circular
\* doubly-linked list: free_list is NULL exactly when nothing is linked, the
\* walk along the next links comes back to the head, and for every block x
\* on it prev(next(x)) = x, next(prev(x)) = x and both links are bases of
\* blocks inside [heap_start, heap_end)
ListWellFormed ==
    sig = "none" =>
        /\ free_list = NULL <=> Linked(M) = {}
        /\ free_list # NULL =>
              /\ ListOk
              /\ \A x \in Linked(M) :
                    /\ BlockBase(x) /\ BlockBase(NextOf(x)) /\ BlockBase(PrevOf(x))
                    /\ PrevOf(NextOf(x)) = x
                    /\ NextOf(PrevOf(x)) = x

\* C26: every mem_alloc call terminates: the scan of find_free_block along
\* the next links comes back to the head of the free list
AllocTerminates ==
    [][last'.op = "mem_alloc" => sig' # "HANG"]_vars

PayloadWords(k) ==
    {k.ptr + WORD_SIZE * i : i \in 0..((adjust_size(k.req) \div WORD_SIZE) - 3)}

Others(l) == {k \in Kept(l) : k.ptr # l.ret}

\* C27: mem_alloc and mem_free leave every payload byte of the allocated
\* blocks other than the one being allocated or released as it was
PayloadFrame ==
    [][(last'.op \in {"mem_alloc", "mem_free"} /\ sig' = "none") =>
          \A k \in Others(last') : \A a \in PayloadWords(k) : Rd(M', a) = Rd(M, a)]_vars

\* the footer of the block that ends at heap_end
TopFooter == Rd(M, heap_end - WORD_SIZE)

\* C28: after every call the arena is empty or the block that ends at
\* heap_end has its allocation bit set
TopBlockAllocated ==
    (last.op # "none" /\ sig = "none") =>
        heap_start = heap_end \/ Bit0(TopFooter) = 1

\* every allocation made has been released again, by releases only
AllReleased == OnlyReleases /\ live = {}

\* C29: after allocations followed by the release of every outstanding
\* allocation, in any order, heap_end = heap_start and free_list = NULL
EmptyAfterAllReleased ==
    AllReleased => heap_end = heap_start /\ free_list = NULL

====
